---- MODULE Spec2Model ----
(***************************************************************************)
(* Model of package ovpnstats (parse.go): the parser of the                *)
(* openvpn-status.log file.                                                *)
(*                                                                         *)
(* A Go string is modelled as the sequence of its characters, each a       *)
(* one-character string, so that strings.Split and strconv.Atoi are        *)
(* computed character by character as the library computes them.  The      *)
(* file is modelled at the level bufio.Scanner delivers it: a sequence of  *)
(* stream items, each a text line or the point at which the underlying     *)
(* read fails (an I/O error, or a line longer than the scanner's buffer).  *)
(***************************************************************************)
EXTENDS Integers, Sequences, FiniteSets, TLC

VARIABLES
    file,     \* the content of the file at `filename`: a sequence of stream items
    pc,       \* position of ParseStatusFile: "open", "scan", "returned", "panicked"
    pos,      \* number of stream items the scanner has consumed
    clients,  \* local accumulator `clients`
    routes,   \* local accumulator `routes`
    scanErr,  \* the scanner's sticky error (scanner.Err() # nil)
    ret       \* the values returned to the caller: clients, routes, err

vars == <<file, pc, pos, clients, routes, scanErr, ret>>

(***************************************************************************)
(* Strings                                                                 *)
(***************************************************************************)
splitCharacter == ","

HEADER == <<"H", "E", "A", "D", "E", "R">>
END == <<"E", "N", "D">>
CLIENT_LIST == <<"C", "L", "I", "E", "N", "T", "_", "L", "I", "S", "T">>
ROUTING_TABLE == <<"R", "O", "U", "T", "I", "N", "G", "_", "T", "A", "B", "L", "E">>

Digits == {"0", "1", "2", "3", "4", "5", "6", "7", "8", "9"}

\* ch - '0' for a digit character
DigitVal(ch) ==
    CASE ch = "0" -> 0 [] ch = "1" -> 1 [] ch = "2" -> 2 [] ch = "3" -> 3
      [] ch = "4" -> 4 [] ch = "5" -> 5 [] ch = "6" -> 6 [] ch = "7" -> 7
      [] ch = "8" -> 8 [] ch = "9" -> 9

\* index of the first occurrence of sep in s at or after i, 0 when there is none
RECURSIVE IndexFrom(_, _, _)
IndexFrom(s, sep, i) ==
    IF i > Len(s) THEN 0
    ELSE IF s[i] = sep THEN i
    ELSE IndexFrom(s, sep, i + 1)

\* strings.Split(s, sep) for a one-character separator: the substrings between
\* the occurrences of sep, empty ones included; n separators give n + 1 fields
RECURSIVE Split(_, _)
Split(s, sep) ==
    LET i == IndexFrom(s, sep, 1)
    IN  IF i = 0 THEN <<s>>
        ELSE <<SubSeq(s, 1, i - 1)>> \o Split(SubSeq(s, i + 1, Len(s)), sep)

\* parts[i] with Go's 0-based index
Field(parts, i) == parts[i + 1]

(***************************************************************************)
(* Errors                                                                  *)
(***************************************************************************)
NoErr == [func |-> "nil", num |-> <<>>]

\* *strconv.NumError{Func: "Atoi", Num: s, Err: strconv.ErrSyntax}
SyntaxError(s) == [func |-> "Atoi", num |-> s]

\* *os.PathError returned by os.Open
OpenError == [func |-> "open", num |-> <<>>]

(***************************************************************************)
(* strconv.Atoi, base 10: an optional sign, then at least one digit and    *)
(* nothing but digits.  Every field of the inputs below is shorter than    *)
(* the 19 characters at which a value could leave the range of int.        *)
(***************************************************************************)
\* the digit loop: n = n*10 + (ch - '0'), a syntax error at the first non-digit
RECURSIVE DigitsValue(_, _, _)
DigitsValue(s, i, n) ==
    IF i > Len(s) THEN [ok |-> TRUE, val |-> n]
    ELSE IF s[i] \notin Digits THEN [ok |-> FALSE, val |-> 0]
    ELSE DigitsValue(s, i + 1, n * 10 + DigitVal(s[i]))

\* Atoi without the final negation of a "-" input
AtoiAbs(s) ==
    LET signed == Len(s) > 0 /\ s[1] \in {"-", "+"}
        body == IF signed THEN SubSeq(s, 2, Len(s)) ELSE s
        d == DigitsValue(body, 1, 0)
    IN  IF Len(body) < 1 \/ ~d.ok
        THEN [ok |-> FALSE, val |-> 0, err |-> SyntaxError(s)]
        ELSE [ok |-> TRUE, val |-> d.val, err |-> NoErr]

\* strconv.Atoi(s)
Atoi(s) ==
    LET signed == Len(s) > 0 /\ s[1] \in {"-", "+"}
        body == IF signed THEN SubSeq(s, 2, Len(s)) ELSE s
        d == DigitsValue(body, 1, 0)
    IN  IF Len(body) < 1 \/ ~d.ok
        THEN [ok |-> FALSE, val |-> 0, err |-> SyntaxError(s)]
        ELSE [ok |-> TRUE,
              val |-> IF Len(s) > 0 /\ s[1] = "-" THEN 0 - d.val ELSE d.val,
              err |-> NoErr]

(***************************************************************************)
(* Records                                                                 *)
(***************************************************************************)
\* time.Unix(sec, 0)
TimeUnix(sec) == [zero |-> FALSE, sec |-> sec, nsec |-> 0]

\* time.Time{}
ZeroTime == [zero |-> TRUE, sec |-> 0, nsec |-> 0]

\* ClientInfo{}
ZeroClientInfo ==
    [Name |-> <<>>, RealAddress |-> <<>>, VirtualAddress |-> <<>>,
     VirtualV6Address |-> <<>>, BytesReceived |-> 0, BytesSent |-> 0,
     ConnectedSince |-> ZeroTime, Username |-> <<>>, ClientID |-> 0,
     PeerID |-> 0, DataChannelCipher |-> <<>>]

\* RoutingInfo{}
ZeroRoutingInfo ==
    [VirtualAddress |-> <<>>, CommonName |-> <<>>, RealAddress |-> <<>>,
     LastRef |-> ZeroTime]

\* the three ways a decoder call ends: a record with a nil error, the zero
\* record with an error, or a runtime panic (index out of range)
Decoded(info) == [outcome |-> "ok", info |-> info, err |-> NoErr]
Failed(zero, err) == [outcome |-> "err", info |-> zero, err |-> err]
Panicked(zero) == [outcome |-> "panic", info |-> zero, err |-> NoErr]

(***************************************************************************)
(* parseClientListEntry                                                    *)
(***************************************************************************)
\* the composite literal with BytesReceived and BytesSent taken from each
\* other's field
ClientInfoOfSwapped(parts, bytesReceived, bytesSent, connectedSinceUnix, clientID, peerID) ==
    [Name              |-> Field(parts, 1),
     RealAddress       |-> Field(parts, 2),
     VirtualAddress    |-> Field(parts, 3),
     VirtualV6Address  |-> Field(parts, 4),
     BytesReceived     |-> bytesSent,
     BytesSent         |-> bytesReceived,
     ConnectedSince    |-> TimeUnix(connectedSinceUnix),
     Username          |-> Field(parts, 9),
     ClientID          |-> clientID,
     PeerID            |-> peerID,
     DataChannelCipher |-> Field(parts, 12)]

\* the composite literal ClientInfo{...}; with fewer than 13 fields the index
\* expression parts[12] in it panics (see parseClientListEntry)
ClientInfoOf(parts, bytesReceived, bytesSent, connectedSinceUnix, clientID, peerID) ==
    [Name              |-> Field(parts, 1),
     RealAddress       |-> Field(parts, 2),
     VirtualAddress    |-> Field(parts, 3),
     VirtualV6Address  |-> Field(parts, 4),
     BytesReceived     |-> bytesReceived,
     BytesSent         |-> bytesSent,
     ConnectedSince    |-> TimeUnix(connectedSinceUnix),
     Username          |-> Field(parts, 9),
     ClientID          |-> clientID,
     PeerID            |-> peerID,
     DataChannelCipher |-> Field(parts, 12)]

\* parseClientListEntry without the error check after the conversion of
\* parts[8]: the connection time is then the 0 Atoi returns with its error
parseClientListEntryUnchecked8(line) ==
    LET parts == Split(line, splitCharacter)
        n == Len(parts)
        bytesReceived == Atoi(Field(parts, 5))
        bytesSent == Atoi(Field(parts, 6))
        connectedSinceUnix == Atoi(Field(parts, 8))
        clientID == Atoi(Field(parts, 10))
        peerID == Atoi(Field(parts, 11))
    IN  IF n < 6 THEN Panicked(ZeroClientInfo)
        ELSE IF ~bytesReceived.ok THEN Failed(ZeroClientInfo, bytesReceived.err)
        ELSE IF n < 7 THEN Panicked(ZeroClientInfo)
        ELSE IF ~bytesSent.ok THEN Failed(ZeroClientInfo, bytesSent.err)
        ELSE IF n < 9 THEN Panicked(ZeroClientInfo)
        ELSE IF n < 11 THEN Panicked(ZeroClientInfo)
        ELSE IF ~clientID.ok THEN Failed(ZeroClientInfo, clientID.err)
        ELSE IF n < 12 THEN Panicked(ZeroClientInfo)
        ELSE IF ~peerID.ok THEN Failed(ZeroClientInfo, peerID.err)
        ELSE IF n < 13 THEN Panicked(ZeroClientInfo)
        ELSE Decoded(ClientInfoOf(parts, bytesReceived.val, bytesSent.val,
                                  connectedSinceUnix.val, clientID.val, peerID.val))

\* parseClientListEntry(line): the statements in their order.  An index
\* expression parts[i] with i >= len(parts) panics; the code checks no length.
parseClientListEntry(line) ==
    LET parts == Split(line, splitCharacter)
        n == Len(parts)
        bytesReceived == Atoi(Field(parts, 5))
        bytesSent == Atoi(Field(parts, 6))
        connectedSinceUnix == Atoi(Field(parts, 8))
        clientID == Atoi(Field(parts, 10))
        peerID == Atoi(Field(parts, 11))
    IN  IF n < 6 THEN Panicked(ZeroClientInfo)
        ELSE IF ~bytesReceived.ok THEN Failed(ZeroClientInfo, bytesReceived.err)
        ELSE IF n < 7 THEN Panicked(ZeroClientInfo)
        ELSE IF ~bytesSent.ok THEN Failed(ZeroClientInfo, bytesSent.err)
        ELSE IF n < 9 THEN Panicked(ZeroClientInfo)
        ELSE IF ~connectedSinceUnix.ok THEN Failed(ZeroClientInfo, connectedSinceUnix.err)
        ELSE IF n < 11 THEN Panicked(ZeroClientInfo)
        ELSE IF ~clientID.ok THEN Failed(ZeroClientInfo, clientID.err)
        ELSE IF n < 12 THEN Panicked(ZeroClientInfo)
        ELSE IF ~peerID.ok THEN Failed(ZeroClientInfo, peerID.err)
        ELSE IF n < 13 THEN Panicked(ZeroClientInfo)
        ELSE Decoded(ClientInfoOf(parts, bytesReceived.val, bytesSent.val,
                                  connectedSinceUnix.val, clientID.val, peerID.val))

(***************************************************************************)
(* parseRoutingTableEntry                                                  *)
(***************************************************************************)
\* parseRoutingTableEntry(line); parts[1..3] exist once parts[5] does
parseRoutingTableEntry(line) ==
    LET parts == Split(line, splitCharacter)
        lastRefUnix == Atoi(Field(parts, 5))
    IN  IF Len(parts) < 6 THEN Panicked(ZeroRoutingInfo)
        ELSE IF ~lastRefUnix.ok THEN Failed(ZeroRoutingInfo, lastRefUnix.err)
        ELSE Decoded([VirtualAddress |-> Field(parts, 1),
                      CommonName     |-> Field(parts, 2),
                      RealAddress    |-> Field(parts, 3),
                      LastRef        |-> TimeUnix(lastRefUnix.val)])

(***************************************************************************)
(* ParseStatusFile: the body of the scan loop                              *)
(***************************************************************************)
\* the three results of ParseStatusFile; a nil slice is the empty sequence
Ret(cl, rt, err) == [clients |-> cl, routes |-> rt, err |-> err]
NoRet == Ret(<<>>, <<>>, NoErr)

\* how one pass through the loop body ends, with the accumulators after it
Continue(cl, rt) == [ctl |-> "continue", clients |-> cl, routes |-> rt, ret |-> NoRet]
Return(cl, rt, r) == [ctl |-> "return", clients |-> cl, routes |-> rt, ret |-> r]
Panic(cl, rt) == [ctl |-> "panic", clients |-> cl, routes |-> rt, ret |-> NoRet]

\* a return of the accumulators together with the error
ReturnErrPartial(cl, rt, err) == Return(cl, rt, Ret(cl, rt, err))

\* return nil, nil, err
ReturnErr(cl, rt, err) == Return(cl, rt, Ret(<<>>, <<>>, err))

\* case "CLIENT_LIST" that skips a line its decoder rejects
ClientListCaseSkip(cl, rt, line) ==
    LET d == parseClientListEntry(line)
    IN  CASE d.outcome = "panic" -> Panic(cl, rt)
          [] d.outcome = "err"   -> Continue(cl, rt)
          [] d.outcome = "ok"    -> Continue(Append(cl, d.info), rt)

\* case "CLIENT_LIST"
ClientListCase(cl, rt, line) ==
    LET d == parseClientListEntry(line)
    IN  CASE d.outcome = "panic" -> Panic(cl, rt)
          [] d.outcome = "err"   -> ReturnErr(cl, rt, d.err)
          [] d.outcome = "ok"    -> Continue(Append(cl, d.info), rt)

\* case "ROUTING_TABLE"
RoutingTableCase(cl, rt, line) ==
    LET d == parseRoutingTableEntry(line)
    IN  CASE d.outcome = "panic" -> Panic(cl, rt)
          [] d.outcome = "err"   -> ReturnErr(cl, rt, d.err)
          [] d.outcome = "ok"    -> Continue(cl, Append(rt, d.info))

\* case "END" with a break that leaves the scan loop
EndCaseStops(cl, rt) == Return(cl, rt, Ret(cl, rt, NoErr))

\* case "END": the break leaves the switch statement only
EndCase(cl, rt) == Continue(cl, rt)

\* the inner switch with a default that rejects an unknown marker
InnerSwitchStrict(cl, rt, line, statusType) ==
    CASE statusType = CLIENT_LIST   -> ClientListCase(cl, rt, line)
      [] statusType = ROUTING_TABLE -> RoutingTableCase(cl, rt, line)
      [] OTHER                      -> ReturnErr(cl, rt, SyntaxError(statusType))

\* switch statusType := parts[0]; statusType { ... }, which has no default
InnerSwitch(cl, rt, line, statusType) ==
    CASE statusType = CLIENT_LIST   -> ClientListCase(cl, rt, line)
      [] statusType = ROUTING_TABLE -> RoutingTableCase(cl, rt, line)
      [] OTHER                      -> Continue(cl, rt)

\* the loop body for one line: switch parts := strings.Split(line, ","); parts[0]
LoopBody(cl, rt, line) ==
    LET parts == Split(line, splitCharacter)
    IN  CASE Field(parts, 0) = HEADER -> Continue(cl, rt)
          [] Field(parts, 0) = END    -> EndCase(cl, rt)
          [] OTHER                    -> InnerSwitch(cl, rt, line, Field(parts, 0))

\* for scanner.Scan() { ... }; return clients, routes, nil  -- the whole scan
\* of a stream as one function of the stream: the function's position at its
\* end and the values it returns
RECURSIVE ParseLines(_, _, _)
ParseLines(items, cl, rt) ==
    IF Len(items) = 0 \/ Head(items).kind = "fault"
    THEN [pc |-> "returned", ret |-> Ret(cl, rt, NoErr)]
    ELSE LET r == LoopBody(cl, rt, Head(items).text)
         IN  CASE r.ctl = "continue" -> ParseLines(Tail(items), r.clients, r.routes)
               [] r.ctl = "return"   -> [pc |-> "returned", ret |-> r.ret]
               [] r.ctl = "panic"    -> [pc |-> "panicked", ret |-> NoRet]

(***************************************************************************)
(* Inputs                                                                  *)
(***************************************************************************)
MaxLines == 3

\* the fields joined by the split character
RECURSIVE Join(_)
Join(fields) ==
    IF Len(fields) = 0 THEN <<>>
    ELSE IF Len(fields) = 1 THEN fields[1]
    ELSE fields[1] \o <<splitCharacter>> \o Join(Tail(fields))

Line(text) == [kind |-> "line", text |-> text]

\* the point of the stream at which the scanner's read fails
ReadFault == [kind |-> "fault", text |-> <<>>]

ClientFields(f5, f6, f8, f10, f11) ==
    <<CLIENT_LIST, <<"n">>, <<"r">>, <<"v">>, <<>>, f5, f6, <<"d">>, f8,
      <<"u">>, f10, f11, <<"c">>>>

RouteFields(name, f5) ==
    <<ROUTING_TABLE, <<"v">>, name, <<"r">>, <<"d">>, f5>>

\* the lines of which the multi-line files are made
Catalog ==
    { Line(Join(<<HEADER, CLIENT_LIST, <<"x">>>>)),
      Line(END),
      Line(<<>>),
      Line(Join(<<<<"F", "O", "O">>, <<"b", "a", "r">>>>)),
      Line(Join(ClientFields(<<"1", "0">>, <<"2", "0">>, <<"3", "0">>, <<"5">>, <<"6">>))),
      Line(Join(ClientFields(<<"-", "7">>, <<"2", "0">>, <<"3", "0">>, <<"5">>, <<"6">>))),
      Line(Join(ClientFields(<<"x">>, <<"2", "0">>, <<"3", "0">>, <<"5">>, <<"6">>))),
      Line(CLIENT_LIST),
      Line(Join(RouteFields(<<"n">>, <<"4", "0">>))),
      Line(Join(RouteFields(<<"m">>, <<"4", "1">>))),
      Line(Join(RouteFields(<<"n">>, <<"z">>))),
      Line(Join(<<ROUTING_TABLE, <<"v">>>>)),
      ReadFault }

\* texts of the integer fields of the one-line files
NumTexts == { <<"1", "2">>, <<"-", "3">>, <<"x">> }
OddNumTexts == { <<>>, <<"+", "4">>, <<"-">>, <<"1", "a">>, <<"-", "0">> }

\* the first n fields
Take(fields, n) == SubSeq(fields, 1, n)

\* CLIENT_LIST lines of every length up to one field more than the schema
ClientLines ==
    { Line(Join(Take(ClientFields(f5, f6, f8, f10, f11) \o <<<<"z">>>>, n))) :
        f5 \in NumTexts \cup OddNumTexts, f6 \in NumTexts, f8 \in NumTexts,
        f10 \in NumTexts, f11 \in NumTexts,
        n \in 1..(Len(ClientFields(<<>>, <<>>, <<>>, <<>>, <<>>)) + 1) }

\* ROUTING_TABLE lines of every length up to one field more than the schema
RouteLines ==
    { Line(Join(Take(RouteFields(<<"n">>, f5) \o <<<<"z">>>>, n))) :
        f5 \in NumTexts \cup OddNumTexts,
        n \in 1..(Len(RouteFields(<<>>, <<>>)) + 1) }

RECURSIVE SeqsUpTo(_, _)
SeqsUpTo(S, n) ==
    IF n = 0 THEN {<<>>}
    ELSE LET shorter == SeqsUpTo(S, n - 1)
         IN  shorter \cup {Append(q, x) : q \in shorter, x \in S}

\* the files: every sequence of up to MaxLines catalog items, and every
\* one-line file of a CLIENT_LIST or ROUTING_TABLE line
Files ==
    SeqsUpTo(Catalog, MaxLines) \cup {<<l>> : l \in ClientLines \cup RouteLines}

(***************************************************************************)
(* ParseStatusFile                                                         *)
(***************************************************************************)
Init ==
    /\ file \in Files
    /\ pc = "open"
    /\ pos = 0
    /\ clients = <<>>
    /\ routes = <<>>
    /\ scanErr = FALSE
    /\ ret = NoRet

\* os.Open succeeds
OpenOk ==
    /\ pc = "open"
    /\ pc' = "scan"
    /\ UNCHANGED <<file, pos, clients, routes, scanErr, ret>>

\* os.Open fails: return nil, nil, err
OpenFail ==
    /\ pc = "open"
    /\ pc' = "returned"
    /\ ret' = Ret(<<>>, <<>>, OpenError)
    /\ UNCHANGED <<file, pos, clients, routes, scanErr>>

\* scanner.Scan() delivers the next line and the loop body runs on it
ScanLine ==
    /\ pc = "scan"
    /\ pos < Len(file)
    /\ file[pos + 1].kind = "line"
    /\ LET r == LoopBody(clients, routes, file[pos + 1].text)
       IN  /\ pc' = CASE r.ctl = "continue" -> "scan"
                      [] r.ctl = "return"   -> "returned"
                      [] r.ctl = "panic"    -> "panicked"
           /\ clients' = r.clients
           /\ routes' = r.routes
           /\ ret' = r.ret
    /\ pos' = pos + 1
    /\ UNCHANGED <<file, scanErr>>

\* scanner.Scan() returns false because the read failed; the loop ends and
\* the function returns clients, routes, nil without looking at scanner.Err()
ScanFail ==
    /\ pc = "scan"
    /\ pos < Len(file)
    /\ file[pos + 1].kind = "fault"
    /\ scanErr' = TRUE
    /\ pc' = "returned"
    /\ ret' = Ret(clients, routes, NoErr)
    /\ UNCHANGED <<file, pos, clients, routes>>

\* scanner.Scan() returns false at the end of the input
ScanEOF ==
    /\ pc = "scan"
    /\ pos = Len(file)
    /\ pc' = "returned"
    /\ ret' = Ret(clients, routes, NoErr)
    /\ UNCHANGED <<file, pos, clients, routes, scanErr>>

Next ==
    \/ OpenOk
    \/ OpenFail
    \/ ScanLine
    \/ ScanFail
    \/ ScanEOF

Spec == Init /\ [][Next]_vars

TypeOK ==
    /\ pc \in {"open", "scan", "returned", "panicked"}
    /\ pos \in 0..Len(file)
    /\ scanErr \in BOOLEAN
    /\ Len(clients) + Len(routes) <= pos

(***************************************************************************)
(* Vocabulary of the properties                                            *)
(***************************************************************************)
IsLine(k) == file[k].kind = "line"
Parts(k) == Split(file[k].text, splitCharacter)
Marker(k) == Field(Parts(k), 0)
IsClientLine(k) == IsLine(k) /\ Marker(k) = CLIENT_LIST
IsRouteLine(k) == IsLine(k) /\ Marker(k) = ROUTING_TABLE
IsRecordLine(k) == IsClientLine(k) \/ IsRouteLine(k)

\* what the decoder selected by the marker of line k makes of the line
DecodeOf(k) ==
    IF IsClientLine(k) THEN parseClientListEntry(file[k].text)
    ELSE parseRoutingTableEntry(file[k].text)

\* a record line with fewer fields than its schema has
IsShortLine(k) ==
    \/ IsClientLine(k) /\ Len(Parts(k)) < Len(ClientFields(<<>>, <<>>, <<>>, <<>>, <<>>))
    \/ IsRouteLine(k) /\ Len(Parts(k)) < Len(RouteFields(<<>>, <<>>))

\* the number of CLIENT_LIST (ROUTING_TABLE) lines among the first k items
ClientCount(k) == Cardinality({j \in 1..k : IsClientLine(j)})
RouteCount(k) == Cardinality({j \in 1..k : IsRouteLine(j)})

\* the text is a base-10 integer: an optional sign and one or more digits
IsInteger(s) ==
    LET from == IF Len(s) > 0 /\ s[1] \in {"-", "+"} THEN 2 ELSE 1
    IN  /\ from <= Len(s)
        /\ \A i \in from..Len(s) : s[i] \in Digits

\* the text is a negative number: a minus sign and digits that are not all 0
IsNegative(s) ==
    /\ IsInteger(s)
    /\ s[1] = "-"
    /\ \E i \in 2..Len(s) : s[i] # "0"

IntFields == {5, 6, 8, 10, 11}

\* the records of all CLIENT_LIST (ROUTING_TABLE) lines of the items, in order
RECURSIVE ClientRecords(_)
ClientRecords(items) ==
    IF Len(items) = 0 THEN <<>>
    ELSE LET h == Head(items)
         IN  IF h.kind = "line" /\ Field(Split(h.text, splitCharacter), 0) = CLIENT_LIST
             THEN <<parseClientListEntry(h.text).info>> \o ClientRecords(Tail(items))
             ELSE ClientRecords(Tail(items))

RECURSIVE RouteRecords(_)
RouteRecords(items) ==
    IF Len(items) = 0 THEN <<>>
    ELSE LET h == Head(items)
         IN  IF h.kind = "line" /\ Field(Split(h.text, splitCharacter), 0) = ROUTING_TABLE
             THEN <<parseRoutingTableEntry(h.text).info>> \o RouteRecords(Tail(items))
             ELSE RouteRecords(Tail(items))

IsEndItem(item) ==
    item.kind = "line" /\ Field(Split(item.text, splitCharacter), 0) = END

\* the stream with its END lines removed
WithoutEnd(items) == SelectSeq(items, LAMBDA item : ~IsEndItem(item))

\* the fields with field i (0-based) replaced by text
WithField(parts, i, text) == [parts EXCEPT ![i + 1] = text]

Succeeded == pc = "returned" /\ ret.err = NoErr
DecodeFailed == pc = "returned" /\ ret.err.func = "Atoi"

(***************************************************************************)
(* C1                                                                      *)
(***************************************************************************)
\* C1: once the scanner has consumed a CLIENT_LIST or ROUTING_TABLE line whose
\* decoder returns an error, ParseStatusFile has returned that (non-nil) error
\* and the scan stands at that line: no later line is ever consumed, decoded
\* or appended, whatever the later lines are.
C1_AbortAtFirstDecodeError ==
    \A k \in 1..pos :
        (IsRecordLine(k) /\ DecodeOf(k).outcome = "err") =>
            /\ pc = "returned"
            /\ pos = k
            /\ ret.err = DecodeOf(k).err
            /\ ret.err # NoErr
            /\ Len(clients) = ClientCount(k - 1)
            /\ Len(routes) = RouteCount(k - 1)

\* a scan aborted at a corrupt line that is followed by a well-formed record line
C1_Witness ==
    /\ DecodeFailed
    /\ pos > 1
    /\ \E j \in (pos + 1)..Len(file) : IsRecordLine(j) /\ DecodeOf(j).outcome = "ok"

(***************************************************************************)
(* C2                                                                      *)
(***************************************************************************)
\* C2: when ParseStatusFile returns without error, the client sequence is the
\* decoded records of all CLIENT_LIST lines of the input in input order and the
\* routing sequence the decoded records of all ROUTING_TABLE lines in input
\* order, none dropped or duplicated.
C2_SuccessHoldsAllRecords ==
    Succeeded =>
        /\ ret.clients = ClientRecords(file)
        /\ ret.routes = RouteRecords(file)

(***************************************************************************)
(* C3                                                                      *)
(***************************************************************************)
\* C3: a CLIENT_LIST line with fewer than 13 fields or a ROUTING_TABLE line with
\* fewer than 6 fields makes its decoder return a MalformedNumericField error,
\* which ParseStatusFile returns to its caller.
C3_ShortLineIsError ==
    \A k \in 1..pos :
        IsShortLine(k) =>
            /\ DecodeOf(k).outcome = "err"
            /\ pc = "returned"
            /\ ret.err.func = "Atoi"

(***************************************************************************)
(* C4                                                                      *)
(***************************************************************************)
\* C4 as stated: when the scan aborts on a decode error at line k, the returned
\* client and routing sequences hold the records decoded from the lines before k.
C4_ErrorWithPartialResults ==
    DecodeFailed =>
        /\ ret.clients = ClientRecords(SubSeq(file, 1, pos - 1))
        /\ ret.routes = RouteRecords(SubSeq(file, 1, pos - 1))

\* C4 as amended: when the scan aborts on a decode error at line k,
\* ParseStatusFile returns the error with nil client and routing sequences; the
\* records decoded from the lines before k stay in its local accumulators and
\* are not returned.
C4_ErrorWithNilResults ==
    DecodeFailed =>
        /\ ret.clients = <<>>
        /\ ret.routes = <<>>
        /\ clients = ClientRecords(SubSeq(file, 1, pos - 1))
        /\ routes = RouteRecords(SubSeq(file, 1, pos - 1))

\* a scan aborted after it had collected a client record and a routing record
C4_Witness ==
    /\ DecodeFailed
    /\ Len(clients) > 0
    /\ Len(routes) > 0

(***************************************************************************)
(* C5                                                                      *)
(***************************************************************************)
\* C5: an END line does not stop the scan: every record line after it is still
\* decoded and appended (or its error propagated), so a finished scan ends as the
\* scan of the same input with all END lines removed ends.
C5_EndDoesNotStop ==
    (pc \in {"returned", "panicked"} /\ ret.err # OpenError) =>
        /\ [pc |-> pc, ret |-> ret] = ParseLines(WithoutEnd(file), <<>>, <<>>)
        /\ \A k \in 1..Len(file) :
               (k <= pos /\ IsLine(k) /\ Marker(k) = END /\ k < Len(file) /\ IsLine(k + 1))
                   => pos > k

\* a successful scan that returns a record of a line that follows an END line
C5_Witness ==
    /\ Succeeded
    /\ \E i \in 1..pos : \E j \in (i + 1)..pos :
           /\ IsLine(i) /\ Marker(i) = END
           /\ IsRecordLine(j)
    /\ Len(ret.clients) + Len(ret.routes) > 0

(***************************************************************************)
(* C6                                                                      *)
(***************************************************************************)
\* C6: the loop body on a line whose field 0 is neither CLIENT_LIST nor
\* ROUTING_TABLE (HEADER, also with a later field CLIENT_LIST; END; the empty
\* line; an unknown marker) leaves both accumulators unchanged and raises no
\* error: the scan goes on to the next line.
C6_IgnoredLinesAreNoOps ==
    [][ ( /\ pc = "scan"
          /\ pos < Len(file)
          /\ IsLine(pos + 1)
          /\ ~IsRecordLine(pos + 1) )
        => ( /\ pc' = "scan"
             /\ pos' = pos + 1
             /\ clients' = clients
             /\ routes' = routes
             /\ ret' = NoRet ) ]_vars

\* the scan has just passed a HEADER line whose field 1 is CLIENT_LIST, with a
\* record already collected
C6_Witness ==
    /\ pc = "scan"
    /\ pos > 1
    /\ IsLine(pos)
    /\ Marker(pos) = HEADER
    /\ Field(Parts(pos), 1) = CLIENT_LIST
    /\ Len(clients) + Len(routes) > 0

(***************************************************************************)
(* C7                                                                      *)
(***************************************************************************)
\* C7: for a consumed CLIENT_LIST line with at least 13 fields the decoder
\* returns a populated record and no error exactly when fields 5, 6, 8, 10 and
\* 11 are all base-10 integers, and that record is appended; otherwise it returns
\* an error with the zero-value record and the line adds no record.
C7_ClientDecodeAtomic ==
    \A k \in 1..pos :
        (IsClientLine(k) /\ ~IsShortLine(k)) =>
            LET d == DecodeOf(k)
                allInt == \A i \in IntFields : IsInteger(Field(Parts(k), i))
            IN  /\ (d.outcome = "ok") <=> allInt
                /\ allInt =>
                       /\ d.err = NoErr
                       /\ ~d.info.ConnectedSince.zero
                       /\ d.info.Name = Field(Parts(k), 1)
                       /\ d.info.DataChannelCipher = Field(Parts(k), 12)
                       /\ Len(clients) >= ClientCount(k)
                       /\ clients[ClientCount(k)] = d.info
                /\ ~allInt =>
                       /\ d.outcome = "err"
                       /\ d.err # NoErr
                       /\ d.info = ZeroClientInfo
                       /\ Len(clients) = ClientCount(k - 1)
                       /\ ret.clients = <<>>

\* a full-length CLIENT_LIST line rejected for its field 8 alone
C7_Witness ==
    /\ pos = 1
    /\ IsClientLine(1)
    /\ ~IsShortLine(1)
    /\ ~IsInteger(Field(Parts(1), 8))
    /\ \A i \in IntFields \ {8} : IsInteger(Field(Parts(1), i))
    /\ DecodeFailed

(***************************************************************************)
(* C8                                                                      *)
(***************************************************************************)
\* C8 as stated: every ClientInfo of a successful result has non-negative
\* BytesReceived, BytesSent, ClientID and PeerID.
C8_CountersNonNegative ==
    Succeeded =>
        \A i \in 1..Len(ret.clients) :
            /\ ret.clients[i].BytesReceived >= 0
            /\ ret.clients[i].BytesSent >= 0
            /\ ret.clients[i].ClientID >= 0
            /\ ret.clients[i].PeerID >= 0

\* C8 as amended: in a successful result each of BytesReceived, BytesSent,
\* ClientID and PeerID is negative exactly when its field (5, 6, 10, 11) of the
\* record's line is a minus sign followed by a number other than zero, and
\* non-negative otherwise: the decoder accepts signed integers.
C8_CountersSignOfField ==
    Succeeded =>
        \A k \in 1..pos :
            IsClientLine(k) =>
                LET info == ret.clients[ClientCount(k)]
                IN  /\ (info.BytesReceived < 0) <=> IsNegative(Field(Parts(k), 5))
                    /\ (info.BytesSent < 0) <=> IsNegative(Field(Parts(k), 6))
                    /\ (info.ClientID < 0) <=> IsNegative(Field(Parts(k), 10))
                    /\ (info.PeerID < 0) <=> IsNegative(Field(Parts(k), 11))

\* a successful result with a negative BytesReceived and a negative PeerID
C8_Witness ==
    /\ Succeeded
    /\ \E i \in 1..Len(ret.clients) :
           /\ ret.clients[i].BytesReceived < 0
           /\ ret.clients[i].PeerID < 0
           /\ ret.clients[i].BytesSent >= 0

(***************************************************************************)
(* C9                                                                      *)
(***************************************************************************)
\* C9: the record appended for a CLIENT_LIST line has Name, RealAddress,
\* VirtualAddress, VirtualV6Address, Username, DataChannelCipher equal to fields
\* 1, 2, 3, 4, 9, 12 verbatim (also when empty), BytesReceived, BytesSent,
\* ClientID, PeerID equal to the integer values of fields 5, 6, 10, 11 and
\* ConnectedSince the instant field 8 seconds after the epoch with zero fraction;
\* a line that differs only in field 7 or in fields beyond 12 decodes to the
\* same record.
C9_ClientRecordByPosition ==
    \A k \in 1..pos :
        (IsClientLine(k) /\ DecodeOf(k).outcome = "ok") =>
            LET parts == Parts(k)
                info == clients[ClientCount(k)]
                schema == Len(ClientFields(<<>>, <<>>, <<>>, <<>>, <<>>))
            IN  /\ info.Name = Field(parts, 1)
                /\ info.RealAddress = Field(parts, 2)
                /\ info.VirtualAddress = Field(parts, 3)
                /\ info.VirtualV6Address = Field(parts, 4)
                /\ info.Username = Field(parts, 9)
                /\ info.DataChannelCipher = Field(parts, 12)
                /\ info.BytesReceived = Atoi(Field(parts, 5)).val
                /\ info.BytesSent = Atoi(Field(parts, 6)).val
                /\ info.ClientID = Atoi(Field(parts, 10)).val
                /\ info.PeerID = Atoi(Field(parts, 11)).val
                /\ info.ConnectedSince =
                       [zero |-> FALSE, sec |-> Atoi(Field(parts, 8)).val, nsec |-> 0]
                /\ \A text \in {<<>>, <<"9">>, <<"M", "o", "n">>} :
                       Decoded(info) = parseClientListEntry(Join(WithField(parts, 7, text)))
                /\ Decoded(info) = parseClientListEntry(Join(Take(parts, schema)))
                /\ Decoded(info) = parseClientListEntry(Join(parts \o <<<<"w">>, <<>>>>))

\* a record appended for a line with an empty field 4, a field beyond position
\* 12 and differing numbers in its integer fields
C9_Witness ==
    /\ pos = 1
    /\ IsClientLine(1)
    /\ Len(clients) = 1
    /\ Len(Parts(1)) > Len(ClientFields(<<>>, <<>>, <<>>, <<>>, <<>>))
    /\ Field(Parts(1), 4) = <<>>
    /\ clients[1].BytesReceived # clients[1].BytesSent
    /\ clients[1].ConnectedSince.sec # clients[1].PeerID

(***************************************************************************)
(* C10                                                                     *)
(***************************************************************************)
\* C10: ParseStatusFile returns a nil error only when the scan reached the end
\* of the stream after processing every line; a read that fails before the end
\* of the input is returned as an error.
C10_SuccessOnlyAtEndOfStream ==
    Succeeded =>
        /\ pos = Len(file)
        /\ ~scanErr

====
